---------------------------- MODULE Spec2Model ----------------------------
(***************************************************************************)
(* Model of the NEURON visual-fidelity tools (src/tools/color_transfer.py  *)
(* and src/tools/image_preprocess.py).                                     *)
(*                                                                         *)
(* Every tool function is a synchronous computation: one action per        *)
(* function call, which draws the call's inputs (and the outputs of the    *)
(* vision libraries the function calls) from bounded sets, and records the *)
(* inputs next to the result the code builds from them.                    *)
(*                                                                         *)
(* Numbers.  Scores are integers in units of 10^-(RoundDigits+1); contour  *)
(* areas are kept doubled (cv2.contourArea returns multiples of 0.5).      *)
(***************************************************************************)
EXTENDS Integers, Sequences, FiniteSets, TLC

VARIABLES
    pc,         \* "start" before the call, "done" once it has returned
    ssimIn,     \* compute_ssim: what skimage and cv2 returned to it
    ssimOut,    \* compute_ssim: the dictionary it returned
    palIn,      \* extract_palette: its arguments and what KMeans returned
    palOut,     \* extract_palette: the dictionary it returned
    cliIn,      \* a command line: its arguments, the environment, the fault
    cliOut,     \* a command line: exit status, printed result, files written
    normIn,     \* load_and_normalize: its arguments and what cv2 found
    normOut,    \* load_and_normalize: the image returned, or the exception
    sugIn,      \* suggest_color_adjustments: the palettes and what cv2 returned
    sugOut,     \* suggest_color_adjustments: the dictionary it returned
    cropIn,     \* detect_content_bounds: the image size, the margin, cv2's box
    cropOut,    \* detect_content_bounds: the tuple it returned
    xferIn,     \* reinhard_color_transfer: the two images in LAB, the flag
    xferOut,    \* reinhard_color_transfer: result_lab and the colour shift
    now,        \* session service: the clock, in ticks
    users,      \* session service: the users table, as the set of google ids
    sessions,   \* session service: the sessions table, as the set of its rows
    issued,     \* session service: the signed session ids handed out so far
    loggedOut,  \* session service: the ids of the rows that logout deleted
    lastReq     \* session service: the last request and how it was answered

ssimVars == <<ssimIn, ssimOut>>
palVars == <<palIn, palOut>>
cliVars == <<cliIn, cliOut>>
normVars == <<normIn, normOut>>
sugVars == <<sugIn, sugOut>>
cropVars == <<cropIn, cropOut>>
xferVars == <<xferIn, xferOut>>
svcVars == <<now, users, sessions, issued, loggedOut, lastReq>>

vars == <<pc, ssimVars, palVars, cliVars, normVars, sugVars, cropVars,
          xferVars, svcVars>>

None == "none"

\* A request without a signed session id, and a row that was not found.
NoToken == [present |-> FALSE, sid |-> 0, ts |-> 0, genuine |-> FALSE]
NoRow == [present |-> FALSE, id |-> 0, user_id |-> None, expires_at |-> 0]

\* No request has been answered since the clock last moved.
Idle == [route |-> None, token |-> NoToken, row |-> NoRow, user |-> None,
         status |-> 0]

\* Before any call: nothing has been passed in and nothing returned.
Init ==
    /\ pc = "start"
    /\ ssimIn = None /\ ssimOut = None
    /\ palIn = None /\ palOut = None
    /\ cliIn = None /\ cliOut = None
    /\ normIn = None /\ normOut = None
    /\ sugIn = None /\ sugOut = None
    /\ cropIn = None /\ cropOut = None
    /\ xferIn = None /\ xferOut = None
    /\ now = 0
    /\ users = {}
    /\ sessions = {}
    /\ issued = <<>>
    /\ loggedOut = {}
    /\ lastReq = Idle

RECURSIVE Pow10(_)
Pow10(n) == IF n = 0 THEN 1 ELSE 10 * Pow10(n - 1)

(***************************************************************************)
(* compute_ssim                                                            *)
(***************************************************************************)

\* Bounds of the model.
ScoreSpread == 6      \* raw scores within this many units of each threshold
MaxContours == 6      \* contours found in the difference mask
AreaSpread == 1       \* doubled areas from 2*100 to 2*100 + AreaSpread

\* Program constants.
RoundDigits == 4      \* round(float(score), 4)
RegionSlots == 5      \* contours[:5]
NoiseArea == 100      \* if area > 100

ScoreScale == Pow10(RoundDigits + 1)
PassMin == 94 * (ScoreScale \div 100)
ExcellentMin == 95 * (ScoreScale \div 100)
GoodMin == 90 * (ScoreScale \div 100)
FairMin == 80 * (ScoreScale \div 100)

Thresholds == {PassMin, ExcellentMin, GoodMin, FairMin}

\* Raw scores the ssim call may return: the windows around the thresholds and
\* the ends and middle of the range [-1, 1].
ScoreSet ==
    {t + d : t \in Thresholds, d \in (0 - ScoreSpread)..ScoreSpread}
        \cup {0 - ScoreScale, 0, ScoreScale}

\* round(x, 4) of a score given in units of 10^-5, in units of 10^-4.  A
\* decimal tie (last digit 5) is not a binary double: the double nearest to it
\* lies on one side or the other, so the rounding goes either way.
Round4(raw) ==
    LET lo == raw \div 10
        r == raw % 10
    IN  IF r < 5 THEN {lo} ELSE IF r > 5 THEN {lo + 1} ELSE {lo, lo + 1}

\* The nested conditional expression of the "analysis" field, on the raw score.
Analysis(raw) ==
    IF raw >= ExcellentMin THEN "excellent"
    ELSE IF raw >= GoodMin THEN "good"
    ELSE IF raw >= FairMin THEN "fair"
    ELSE "poor"

Passed(raw) == raw >= PassMin

\* Doubled areas of the contours cv2.findContours may return.
AreaSet == {2 * NoiseArea + d : d \in 0..AreaSpread}

ContourSeqs == UNION {[1..n -> AreaSet] : n \in 0..MaxContours}

\* All the contours, without the slice.
TakeSlotsAll(contours) == contours

\* contours[:5]
TakeSlots(contours) ==
    IF Len(contours) <= RegionSlots THEN contours
    ELSE SubSeq(contours, 1, RegionSlots)

\* if area > 100, on the doubled area
KeepRegion(area2) == area2 > 2 * NoiseArea

\* int(area)
ReportedArea(area2) == area2 \div 2

\* The loop over contours[:5]: the regions, in the order they are appended.
\* `idx` is the contour's position in the list findContours returned.
RECURSIVE ScanContours(_, _)
ScanContours(slots, i) ==
    IF i > Len(slots) THEN <<>>
    ELSE (IF KeepRegion(slots[i])
          THEN <<[idx |-> i, area |-> ReportedArea(slots[i])]>>
          ELSE <<>>) \o ScanContours(slots, i + 1)

DiffRegions(contours) == ScanContours(TakeSlots(contours), 1)

\* compute_ssim with scikit-image present: the whole call.
ComputeSsim ==
    /\ pc = "start"
    /\ pc' = "done"
    /\ \E raw \in ScoreSet, contours \in ContourSeqs :
        \E rounded \in Round4(raw) :
            /\ ssimIn' = [score |-> raw, contours |-> contours]
            /\ ssimOut' = [success |-> TRUE,
                           ssim |-> rounded,
                           passed |-> Passed(raw),
                           difference_regions |-> DiffRegions(contours),
                           analysis |-> Analysis(raw)]
    /\ UNCHANGED <<palVars, cliVars, normVars, sugVars, cropVars, xferVars, svcVars>>

SsimNext == ComputeSsim

SpecSsim == Init /\ [][SsimNext]_vars

(***************************************************************************)
(* compute_ssim from the similarity map on: the map is the sequence of its *)
(* pixels, each kept as twice its value times 255 (so that the values      *)
(* between two 8-bit levels are told apart).                               *)
(***************************************************************************)

\* Bounds of the model.
MaxMapPixels == 2     \* pixels of the similarity map
MapSpread == 2        \* map values within this many half-levels of the cut

\* Program constants.
MaskCut == 200        \* cv2.threshold(diff_map_uint8, 200, 255, THRESH_BINARY_INV)
MapScale == 255       \* (diff_map * 255)

\* A pixel that is similar throughout, one that is just dissimilar enough for
\* its scaled value to fall below -55, one at 0, and the values around the cut.
MapValues ==
    {2 * MapScale, 0, 0 - (2 * (MapScale - MaskCut) + 1)}
        \cup {2 * MaskCut + d : d \in (0 - MapSpread)..(MapSpread + 1)}

Maps == UNION {[1..n -> MapValues] : n \in 1..MaxMapPixels}

\* .astype(np.uint8) of v * 255: the fraction is dropped; the cast of a
\* negative value is undefined in C, and gives the value modulo 256 on some
\* builds and 0 on others.
Uint8Cast(x2) ==
    IF x2 >= 0 THEN {x2 \div 2}
    ELSE {(0 - ((0 - x2) \div 2)) % (MapScale + 1), 0}

\* THRESH_BINARY: the pixel is in the mask when its value is above the cut.
InMaskAbove(level) == level > MaskCut

\* THRESH_BINARY_INV: the pixel is in the mask unless its value is above the cut.
InMask(level) == ~(level > MaskCut)

\* The score skimage returns with the map: 1.0 for a map that is 1 everywhere.
MapScores(map) ==
    IF \A i \in DOMAIN map : map[i] = 2 * MapScale THEN {ScoreScale}
    ELSE Thresholds \cup {0}

\* What findContours may return on the mask: nothing on an empty mask, and
\* otherwise one contour or more, no more than the mask has pixels.
MaskContours(mask) ==
    LET n == Cardinality({i \in DOMAIN mask : mask[i]})
    IN  {c \in UNION {[1..m -> AreaSet] : m \in 0..n} : n > 0 => Len(c) > 0}

\* compute_ssim with scikit-image present, from the similarity map on.
ComputeSsimOnMap ==
    /\ pc = "start"
    /\ pc' = "done"
    /\ \E map \in Maps :
        \E levels \in [DOMAIN map ->
                           UNION {Uint8Cast(map[i]) : i \in DOMAIN map}] :
            /\ \A i \in DOMAIN map : levels[i] \in Uint8Cast(map[i])
            /\ LET mask == [i \in DOMAIN map |-> InMask(levels[i])]
               IN  \E raw \in MapScores(map), contours \in MaskContours(mask) :
                     \E rounded \in Round4(raw) :
                       /\ ssimIn' = [score |-> raw, contours |-> contours,
                                     map |-> map, levels |-> levels,
                                     mask |-> mask]
                       /\ ssimOut' = [success |-> TRUE,
                                      ssim |-> rounded,
                                      passed |-> Passed(raw),
                                      difference_regions |-> DiffRegions(contours),
                                      analysis |-> Analysis(raw)]
    /\ UNCHANGED <<palVars, cliVars, normVars, sugVars, cropVars, xferVars, svcVars>>

SsimMapNext == ComputeSsimOnMap

SpecSsimMap == Init /\ [][SsimMapNext]_vars

(***************************************************************************)
(* Claims about compute_ssim                                               *)
(***************************************************************************)

\* The bucket of a score as the result reports it (units of 10^-4).
BucketOfReported(s4) ==
    IF 10 * s4 >= ExcellentMin THEN "excellent"
    ELSE IF 10 * s4 >= GoodMin THEN "good"
    ELSE IF 10 * s4 >= FairMin THEN "fair"
    ELSE "poor"

\* C1: in every successful ssim result the bucket and the pass flag are the
\* functions of the reported `ssim` field s: analysis by the thresholds 0.95,
\* 0.90, 0.80 on s, and passed exactly when s >= 0.94.
C1_BucketAndPassFollowReportedScore ==
    (pc = "done" /\ ssimOut.success) =>
        /\ ssimOut.analysis = BucketOfReported(ssimOut.ssim)
        /\ ssimOut.passed = (10 * ssimOut.ssim >= PassMin)

\* The positions in findContours' list of the regions reported, in order.
RegionIdx(out) == [j \in 1..Len(out.difference_regions) |->
                      out.difference_regions[j].idx]

InDiscoveryOrder(out) ==
    \A j \in 1..(Len(out.difference_regions) - 1) :
        RegionIdx(out)[j] < RegionIdx(out)[j + 1]

\* C9 as stated: at most 5 regions, every reported entry has area > 100, and
\* the entries are in discovery order.
C9_RegionsOriginal ==
    pc = "done" =>
        /\ Len(ssimOut.difference_regions) <= RegionSlots
        /\ \A j \in 1..Len(ssimOut.difference_regions) :
               ssimOut.difference_regions[j].area > NoiseArea
        /\ InDiscoveryOrder(ssimOut)

\* C9 amended: at most 5 regions, in discovery order, each from a component
\* whose contour area is > 100; the reported area is that area truncated to an
\* integer, so it is >= 100.
C9_RegionsAmended ==
    pc = "done" =>
        /\ Len(ssimOut.difference_regions) <= RegionSlots
        /\ InDiscoveryOrder(ssimOut)
        /\ \A j \in 1..Len(ssimOut.difference_regions) :
               LET e == ssimOut.difference_regions[j]
               IN  /\ e.idx \in 1..Len(ssimIn.contours)
                   /\ ssimIn.contours[e.idx] > 2 * NoiseArea
                   /\ 2 * e.area <= ssimIn.contours[e.idx]
                   /\ ssimIn.contours[e.idx] < 2 * (e.area + 1)
                   /\ e.area >= NoiseArea

\* More than 5 contours were found, a noise contour was skipped, and all the
\* regions of the result come from the first 5, one of them of area 100.5.
C9_Witness ==
    /\ pc = "done"
    /\ Len(ssimIn.contours) > RegionSlots
    /\ Len(ssimOut.difference_regions) >= 2
    /\ Len(ssimOut.difference_regions) < RegionSlots
    /\ \E j \in 1..Len(ssimOut.difference_regions) :
           ssimOut.difference_regions[j].area = NoiseArea
    /\ ssimIn.contours[Len(ssimIn.contours)] > 2 * NoiseArea

\* The map is 1 everywhere (the two images are the same image).
MapAllOnes == \A i \in DOMAIN ssimIn.map : ssimIn.map[i] = 2 * MapScale

\* C18 as stated: the same image twice gives ssim = 1.0, no difference
\* region, "excellent" and passed; and no pixel whose similarity is at or
\* above 200/255 is in the difference mask.
C18_IdenticalOriginal ==
    pc = "done" =>
        /\ MapAllOnes =>
               /\ ssimOut.ssim = ScoreScale \div 10
               /\ ssimOut.difference_regions = <<>>
               /\ ssimOut.analysis = "excellent"
               /\ ssimOut.passed
        /\ \A i \in DOMAIN ssimIn.map :
               ssimIn.map[i] >= 2 * MaskCut => ~ssimIn.mask[i]

\* C18 amended: the same for identical images; and no pixel whose similarity
\* is at or above 201/255 is in the difference mask, while every pixel with a
\* similarity from 0 up to, not including, 201/255 is.
C18_IdenticalAmended ==
    pc = "done" =>
        /\ MapAllOnes =>
               /\ ssimOut.ssim = ScoreScale \div 10
               /\ ssimOut.difference_regions = <<>>
               /\ ssimOut.analysis = "excellent"
               /\ ssimOut.passed
        /\ \A i \in DOMAIN ssimIn.map :
               /\ ssimIn.map[i] >= 2 * (MaskCut + 1) => ~ssimIn.mask[i]
               /\ (ssimIn.map[i] >= 0 /\ ssimIn.map[i] < 2 * (MaskCut + 1))
                      => ssimIn.mask[i]

\* The same image twice: a map of two pixels, both 1.
C18_Witness ==
    /\ pc = "done"
    /\ Len(ssimIn.map) = 2
    /\ MapAllOnes
    /\ ssimOut.ssim = ScoreScale \div 10
    /\ ssimOut.difference_regions = <<>>

\* The positions of the contours of area > 100, in discovery order.
RECURSIVE LargeFrom(_, _)
LargeFrom(contours, i) ==
    IF i > Len(contours) THEN <<>>
    ELSE (IF contours[i] > 2 * NoiseArea THEN <<i>> ELSE <<>>)
             \o LargeFrom(contours, i + 1)

\* C19: noise components use up no region slot: with m components of area
\* > 100 the result reports min(m, 5) regions, the first min(m, 5) of those
\* components in discovery order, whatever noise was discovered before them.
C19_NoiseUsesNoSlot ==
    pc = "done" =>
        LET large == LargeFrom(ssimIn.contours, 1)
            n == IF Len(large) < RegionSlots THEN Len(large) ELSE RegionSlots
        IN  RegionIdx(ssimOut) = SubSeq(large, 1, n)


(***************************************************************************)
(* extract_palette                                                         *)
(*                                                                         *)
(* A pixel is a triple <<r, g, b>> of 8-bit channels and an image is the   *)
(* sequence of its pixels in raster order.  A Python string is the         *)
(* sequence of its characters; a JSON null in a string field is Null.      *)
(***************************************************************************)

\* Bounds of the model.
MaxPixels == 3        \* pixels of an image
MaxK == 3             \* clusters asked for

\* Program constants.
WhiteCut == 250       \* np.all(pixels < 250, axis=1)
BlackCut == 5         \* np.all(pixels > 5, axis=1)

Null == <<>>

\* The colours the images are painted with: white, black, a primary with one
\* channel at 255 and two at 0, and a saturated mid-range colour.
TestColors ==
    { <<255, 255, 255>>, <<0, 0, 0>>, <<255, 0, 0>>, <<200, 120, 40>> }

Images == UNION {[1..n -> TestColors] : n \in 1..MaxPixels}

HexDigit == <<"0", "1", "2", "3", "4", "5", "6", "7",
              "8", "9", "a", "b", "c", "d", "e", "f">>

\* What casting NaN to an integer gives: undefined in C, 0 on some builds and
\* the most negative 64-bit integer on others.  IntMin stands for -2^63, which
\* is out of the range of the checker's integers; it is only ever formatted.
IntMin == 0 - 2147483647
NanCast == {0, IntMin}

RECURSIVE HexStr(_)
HexStr(v) ==
    IF v < 16 THEN <<HexDigit[v + 1]>>
    ELSE HexStr(v \div 16) \o <<HexDigit[(v % 16) + 1]>>

\* f"{v:02x}": hexadecimal, zero-padded to two characters at least.
Fmt02x(v) ==
    IF v = IntMin
    THEN <<"-", "8", "0", "0", "0", "0", "0", "0", "0",
           "0", "0", "0", "0", "0", "0", "0", "0">>
    ELSE IF v < 16 THEN <<"0">> \o HexStr(v) ELSE HexStr(v)

\* f"#{rgb[0]:02x}{rgb[1]:02x}{rgb[2]:02x}"
HexColor(rgb) == <<"#">> \o Fmt02x(rgb[1]) \o Fmt02x(rgb[2]) \o Fmt02x(rgb[3])

\* np.all(pixels < 250, axis=1): the pixels kept when near-white is excluded.
NotNearWhite(px) == \A c \in 1..3 : px[c] < WhiteCut

\* np.all(pixels > 5, axis=1): the pixels kept when near-black is excluded.
NotNearBlack(px) == \A c \in 1..3 : px[c] > BlackCut

\* The two masks, applied one after the other.
FilterPixels(pixels, exWhite, exBlack) ==
    LET afterWhite == IF exWhite THEN SelectSeq(pixels, NotNearWhite)
                      ELSE pixels
    IN  IF exBlack THEN SelectSeq(afterWhite, NotNearBlack) ELSE afterWhite

RECURSIVE SumChan(_, _, _)
SumChan(pixels, idxs, c) ==
    IF idxs = {} THEN 0
    ELSE LET i == CHOOSE j \in idxs : TRUE
         IN  pixels[i][c] + SumChan(pixels, idxs \ {i}, c)

\* mean(axis=0).astype(int) over the pixels at `idxs`: the mean truncated; the
\* mean of no pixel is NaN, cast as `nan` says.
MeanColor(pixels, idxs, nan) ==
    IF idxs = {} THEN <<nan, nan, nan>>
    ELSE [c \in 1..3 |-> SumChan(pixels, idxs, c) \div Cardinality(idxs)]

\* The branch taken when len(pixels) < k.
FallbackAccent(bg) == Null

FallbackPalette(pixels, nan) ==
    LET avg == MeanColor(pixels, DOMAIN pixels, nan)
    IN  [success |-> TRUE,
         colors |-> <<HexColor(avg)>>,
         primary_background |-> HexColor(avg),
         accent |-> FallbackAccent(HexColor(avg))]

\* Counter(labels): the labels in use, in the order they first appear.
RECURSIVE FirstSeen(_, _)
FirstSeen(labels, i) ==
    IF i > Len(labels) THEN <<>>
    ELSE LET rest == FirstSeen(labels, i + 1)
         IN  <<labels[i]>> \o SelectSeq(rest, LAMBDA l : l # labels[i])

Count(labels, l) == Cardinality({i \in DOMAIN labels : labels[i] = l})

\* The keys as Counter lists them, without the sort.
KeysAsCounted(keys, labels) == keys

\* sorted(keys, key=count, reverse=True): stable, so labels of equal count keep
\* their order.  Insertion of each key after the keys that are not smaller.
RECURSIVE SortedByCount(_, _)
SortedByCount(keys, labels) ==
    IF keys = <<>> THEN <<>>
    ELSE LET last == keys[Len(keys)]
             front == SortedByCount(SubSeq(keys, 1, Len(keys) - 1), labels)
             n == Cardinality({j \in DOMAIN front :
                                  Count(labels, front[j]) >= Count(labels, last)})
         IN  SubSeq(front, 1, n) \o <<last>> \o SubSeq(front, n + 1, Len(front))

\* The entries of palette_details: one per label in use, most frequent first.
\* A frequency count/len(labels) is kept as the pair of its terms.
PaletteDetails(pixels, labels) ==
    LET order == SortedByCount(FirstSeen(labels, 1), labels)
    IN  [j \in DOMAIN order |->
            LET members == {i \in DOMAIN labels : labels[i] = order[j]}
                rgb == MeanColor(pixels, members, 0)
            IN  [hex |-> HexColor(rgb),
                 rgb |-> rgb,
                 frequency |-> [num |-> Cardinality(members),
                                den |-> Len(labels)]]]

Max3(rgb) == CHOOSE m \in {rgb[1], rgb[2], rgb[3]} :
                 \A c \in 1..3 : rgb[c] <= m
Min3(rgb) == CHOOSE m \in {rgb[1], rgb[2], rgb[3]} :
                 \A c \in 1..3 : rgb[c] >= m

\* max(r, g, b) - min(r, g, b)
Saturation(rgb) == Max3(rgb) - Min3(rgb)

\* The loop over colors[1:]: <<accent, max_saturation>> after entry i.
RECURSIVE AccentScan(_, _)
AccentScan(colors, i) ==
    IF i < 2 THEN <<Null, 0>>
    ELSE LET prev == AccentScan(colors, i - 1)
         IN  IF Saturation(colors[i].rgb) > prev[2]
             THEN <<colors[i].hex, Saturation(colors[i].rgb)>>
             ELSE prev

\* accent or colors[1]["hex"] if len(colors) > 1 else primary_bg
AccentField(colors, accent, primaryBg) ==
    IF Len(colors) > 1
    THEN (IF accent # Null THEN accent ELSE colors[2].hex)
    ELSE primaryBg

KMeansPalette(pixels, labels) ==
    LET colors == PaletteDetails(pixels, labels)
        primaryBg == colors[1].hex
        accent == AccentScan(colors, Len(colors))[1]
    IN  [success |-> TRUE,
         colors |-> [j \in DOMAIN colors |-> colors[j].hex],
         palette_details |-> colors,
         primary_background |-> primaryBg,
         accent |-> AccentField(colors, accent, primaryBg)]

\* extract_palette: the whole call.  KMeans is the library's: it returns some
\* label in 0..k-1 for every retained pixel, and the centre of a cluster is the
\* mean of its pixels.
ExtractPalette ==
    /\ pc = "start"
    /\ pc' = "done"
    /\ \E image \in Images, k \in 1..MaxK, exWhite \in BOOLEAN, exBlack \in BOOLEAN :
        LET pixels == FilterPixels(image, exWhite, exBlack)
        IN  IF Len(pixels) < k
            THEN \E nan \in NanCast :
                    /\ palIn' = [image |-> image, k |-> k, exWhite |-> exWhite,
                                 exBlack |-> exBlack, pixels |-> pixels,
                                 labels |-> <<>>]
                    /\ palOut' = FallbackPalette(pixels, nan)
            ELSE \E labels \in [1..Len(pixels) -> 0..(k - 1)] :
                    /\ palIn' = [image |-> image, k |-> k, exWhite |-> exWhite,
                                 exBlack |-> exBlack, pixels |-> pixels,
                                 labels |-> labels]
                    /\ palOut' = KMeansPalette(pixels, labels)
    /\ UNCHANGED <<ssimVars, cliVars, normVars, sugVars, cropVars, xferVars, svcVars>>

PaletteNext == ExtractPalette

SpecPalette == Init /\ [][PaletteNext]_vars


(***************************************************************************)
(* Claims about extract_palette                                            *)
(***************************************************************************)

OnKMeansPath == pc = "done" /\ "palette_details" \in DOMAIN palOut
OnFallbackPath == pc = "done" /\ "palette_details" \notin DOMAIN palOut

\* The filter as specified: near-white is every channel > 250, near-black is
\* every channel < 5.
SpecNearWhite(px) == \A c \in 1..3 : px[c] > WhiteCut
SpecNearBlack(px) == \A c \in 1..3 : px[c] < BlackCut

\* C4: the pixels that take part in clustering are exactly the pixels of the
\* image that are not near-white in every channel (when excludeNearWhite) and
\* not near-black in every channel (when excludeNearBlack); with both flags
\* false they are all the pixels.
C4_FilterDropsOnlyAllChannelExtremes ==
    pc = "done" =>
        palIn.pixels =
            SelectSeq(palIn.image,
                      LAMBDA px : /\ ~(palIn.exWhite /\ SpecNearWhite(px))
                                  /\ ~(palIn.exBlack /\ SpecNearBlack(px)))

LabelsInUse == {palIn.labels[i] : i \in DOMAIN palIn.labels}

\* C5: on every clustering of the retained pixels the palette has at most k
\* entries, ordered by non-increasing frequency; the frequencies are the sizes
\* of the clusters in use over the number of retained pixels, each in (0, 1],
\* summing to 1; and `colors` lists the entries' hex values in the same order.
C5_PaletteSortedAndBounded ==
    /\ pc = "done" => Len(palOut.colors) <= palIn.k
    /\ OnKMeansPath =>
        LET d == palOut.palette_details
            n == Len(palIn.pixels)
        IN  /\ Len(d) <= palIn.k
            /\ \A j \in 1..(Len(d) - 1) :
                   d[j].frequency.num * d[j + 1].frequency.den
                       >= d[j + 1].frequency.num * d[j].frequency.den
            /\ \A j \in DOMAIN d :
                   /\ d[j].frequency.den = n
                   /\ 0 < d[j].frequency.num
                   /\ d[j].frequency.num <= d[j].frequency.den
            /\ \E f \in [DOMAIN d -> LabelsInUse] :
                   /\ \A a, b \in DOMAIN d : a # b => f[a] # f[b]
                   /\ {f[j] : j \in DOMAIN d} = LabelsInUse
                   /\ \A j \in DOMAIN d :
                          d[j].frequency.num = Count(palIn.labels, f[j])
            /\ SumChan([j \in DOMAIN d |-> <<d[j].frequency.num>>], DOMAIN d, 1) = n
            /\ palOut.colors = [j \in DOMAIN d |-> d[j].hex]

\* A clustering that leaves a cluster empty and whose entries differ in
\* frequency.
C5_Witness ==
    /\ OnKMeansPath
    /\ Len(palOut.palette_details) = 2
    /\ palIn.k = 3
    /\ palOut.palette_details[1].frequency.num
           > palOut.palette_details[2].frequency.num
    /\ palIn.labels[1] # palIn.labels[2]
    /\ palIn.labels[2] = palIn.labels[3]

HexDigitSet == {HexDigit[i] : i \in DOMAIN HexDigit}

\* A string of the form #rrggbb.
WellFormedHex(h) ==
    /\ Len(h) = 7
    /\ h[1] = "#"
    /\ \A i \in 2..7 : h[i] \in HexDigitSet

\* C6: whenever fewer than k pixels remain after filtering, none included, the
\* call returns a successful one-entry palette whose entry is a well-formed
\* #rrggbb string, the hex of the mean colour of the remaining pixels.
C6_FallbackIsWellFormedMean ==
    (pc = "done" /\ Len(palIn.pixels) < palIn.k) =>
        /\ palOut.success
        /\ Len(palOut.colors) = 1
        /\ WellFormedHex(palOut.colors[1])
        /\ Len(palIn.pixels) > 0 =>
               palOut.colors[1] =
                   HexColor([c \in 1..3 |->
                       SumChan(palIn.pixels, DOMAIN palIn.pixels, c)
                           \div Len(palIn.pixels)])

IsSolid(image) == \A i \in DOMAIN image : image[i] = image[1]

\* C7: with k = 1 and the default exclusion flags, an image whose pixels all
\* equal c gives exactly one entry, of hex c and frequency 1.0.
C7_SolidColourGivesItsOwnEntry ==
    (pc = "done" /\ palIn.k = 1 /\ palIn.exWhite /\ palIn.exBlack
        /\ IsSolid(palIn.image)) =>
        /\ Len(palOut.colors) = 1
        /\ palOut.colors[1] = HexColor(palIn.image[1])
        /\ "palette_details" \in DOMAIN palOut
        /\ Len(palOut.palette_details) = 1
        /\ palOut.palette_details[1].hex = HexColor(palIn.image[1])
        /\ palOut.palette_details[1].frequency.num
               = palOut.palette_details[1].frequency.den

\* The accent as specified, from the entries after the first one: the earliest
\* entry of the largest channel range when that range is positive, otherwise
\* the second entry.
SpecAccent(d) ==
    LET rest == 2..Len(d)
        top == CHOOSE m \in {Saturation(d[j].rgb) : j \in rest} :
                   \A j \in rest : Saturation(d[j].rgb) <= m
        first == CHOOSE j \in rest :
                     /\ Saturation(d[j].rgb) = top
                     /\ \A i \in rest : Saturation(d[i].rgb) = top => j <= i
    IN  IF top > 0 THEN d[first].hex ELSE d[2].hex

\* C8: in every successful palette result primary_background is the hex of the
\* first (highest-frequency) entry and accent is never null: with one entry, on
\* either path, it is the background entry, and with more it is the specified
\* accent.
C8_BackgroundAndAccentRoles ==
    (pc = "done" /\ palOut.success) =>
        /\ palOut.primary_background = palOut.colors[1]
        /\ palOut.accent # Null
        /\ Len(palOut.colors) = 1 => palOut.accent = palOut.primary_background
        /\ Len(palOut.colors) > 1 =>
               palOut.accent = SpecAccent(palOut.palette_details)

\* C8 on the k-means path alone, where the code follows the specified reading.
C8_KMeansPathRoles ==
    OnKMeansPath =>
        /\ palOut.primary_background = palOut.palette_details[1].hex
        /\ palOut.accent # Null
        /\ Len(palOut.colors) = 1 => palOut.accent = palOut.primary_background
        /\ Len(palOut.colors) > 1 =>
               palOut.accent = SpecAccent(palOut.palette_details)


(***************************************************************************)
(* load_and_normalize, auto_crop_content, detect_content_bounds            *)
(*                                                                         *)
(* An image is its size <<w, h>>.  cv2.findContours and cv2.boundingRect   *)
(* are the library's: they return no contour, or a bounding rectangle      *)
(* <<x, y, bw, bh>> with 1 <= bw, 1 <= bh that lies inside the image.      *)
(***************************************************************************)

\* Bound of the model.
MaxDim == 5           \* small widths, heights and target widths

\* Program constants.
MarginPercent == 2    \* margin_percent: float = 0.02
MinSizePercent == 50  \* if bw < w * 0.5 / if bh < h * 0.5

\* Image sizes and target widths: the small ones, and those of the
\* 2000x1000 to 1200 scenario.
Sizes == {<<2000, 1000>>} \cup ((1..MaxDim) \X (1..MaxDim))
Widths == {1200} \cup (1..MaxDim)

\* Where a bounding rectangle may start and end along an extent of length n.
Cuts(n) == {0, n \div 4, n \div 2, (3 * n) \div 4, n}

Spans(n) == {sp \in Cuts(n) \X Cuts(n) : sp[1] < sp[2]}

Min2(a, b) == IF a < b THEN a ELSE b
Max2(a, b) == IF a > b THEN a ELSE b

\* The dimension kept as the margin and the clamp leave it, without the reset.
CropExtentNoReset(n, x, bn, margin) ==
    <<Max2(0, x - margin), Min2(n - Max2(0, x - margin), bn + 2 * margin)>>

\* One dimension of detect_content_bounds after the bounding rectangle is
\* known: add the margin, clamp to the image, and fall back to the full extent
\* when less than half of it is left.  <<offset, length>>.
CropExtent(n, x, bn, margin) ==
    LET x1 == Max2(0, x - margin)
        bn1 == Min2(n - x1, bn + 2 * margin)
    IN  IF 100 * bn1 < n * MinSizePercent THEN <<0, n>> ELSE <<x1, bn1>>

\* The box found with the margin left out.
DetectContentBoundsTight(w, h, rect, margin) ==
    IF rect = Null
    THEN <<0, 0, w, h>>
    ELSE <<CropExtent(w, rect[1], rect[3], 0)[1], CropExtent(h, rect[2], rect[4], 0)[1],
           CropExtent(w, rect[1], rect[3], 0)[2], CropExtent(h, rect[2], rect[4], 0)[2]>>

\* detect_content_bounds(img, margin=margin): (x, y, bw, bh).  `rect` is Null
\* when no contour was found.
DetectContentBounds(w, h, rect, margin) ==
    IF rect = Null THEN <<0, 0, w, h>>
    ELSE LET ex == CropExtent(w, rect[1], rect[3], margin)
             ey == CropExtent(h, rect[2], rect[4], margin)
         IN  <<ex[1], ey[1], ex[2], ey[2]>>

\* int(min(gray.shape) * margin_percent)
CropMargin(w, h) == (Min2(w, h) * MarginPercent) \div 100

\* auto_crop_content: the size of img.crop((x, y, x + w, y + h)).
AutoCropContent(w, h, rect) ==
    LET box == DetectContentBounds(w, h, rect, CropMargin(w, h))
    IN  <<box[3], box[4]>>

\* Binary doubles.  A positive double is [bits, exp]: `bits` are the
\* MantissaBits binary digits of its significand, most significant first (the
\* first is 1), and its value is the integer they spell times 2^exp.  The
\* digits are kept as a sequence: the integer they spell is beyond the range
\* of the integers of the checker.
RECURSIVE Pow2(_)
Pow2(n) == IF n = 0 THEN 1 ELSE 2 * Pow2(n - 1)

\* The least s with a * 2^s >= b.
RECURSIVE ShiftUp(_, _)
ShiftUp(a, b) == IF a >= b THEN 0 ELSE 1 + ShiftUp(2 * a, b)

\* The binary digits of v, n of them.
ToBits(v, n) == [i \in 1..n |-> (v \div Pow2(n - i)) % 2]

\* The integer the digits spell (below 2^31).
RECURSIVE BitsToInt(_)
BitsToInt(bits) ==
    IF Len(bits) = 0 THEN 0
    ELSE IF Len(bits) = 1 THEN bits[1]
    ELSE LET half == Len(bits) \div 2
         IN  BitsToInt(SubSeq(bits, 1, half)) * Pow2(Len(bits) - half)
                 + BitsToInt(SubSeq(bits, half + 1, Len(bits)))

\* The digits are worked on ChunkBits at a time.
ChunkBits == 8

\* The n binary digits that follow in the long division of r by b (r < b),
\* and the remainder left: <<digits, remainder>>.
RECURSIVE LongDiv(_, _, _)
LongDiv(r, b, n) ==
    IF n = 0 THEN <<<<>>, r>>
    ELSE LET c == IF n < ChunkBits THEN n ELSE ChunkBits
             rest == LongDiv((r * Pow2(c)) % b, b, n - c)
         IN  <<ToBits((r * Pow2(c)) \div b, c) \o rest[1], rest[2]>>

\* bits + 1; a carry out of the first digit is put in front.
Increment(bits) ==
    IF \A i \in DOMAIN bits : bits[i] = 1
    THEN <<1>> \o [i \in DOMAIN bits |-> 0]
    ELSE LET z == CHOOSE i \in DOMAIN bits :
                      /\ bits[i] = 0
                      /\ \A j \in DOMAIN bits : j > i => bits[j] = 1
         IN  [i \in DOMAIN bits |->
                 IF i < z THEN bits[i] ELSE IF i = z THEN 1 ELSE 0]

\* Round the digits `bits` (value: the integer they spell times 2^exp, plus
\* `more` below the last digit, where more is 0 for nothing, 1 for less than
\* half a unit, 2 for half, 3 for more than half) to MantissaBits digits, to
\* nearest, ties to even.
RoundToDouble(bits, exp, more, MantissaBits) ==
    LET drop == Len(bits) - MantissaBits
        kept == SubSeq(bits, 1, MantissaBits)
        tail == SubSeq(bits, MantissaBits + 1, Len(bits))
        tailNonZero == \E i \in 2..Len(tail) : tail[i] = 1
        up == IF drop = 0
              THEN more = 3 \/ (more = 2 /\ kept[MantissaBits] = 1)
              ELSE /\ tail[1] = 1
                   /\ (tailNonZero \/ more > 0 \/ kept[MantissaBits] = 1)
        sum == IF up THEN Increment(kept) ELSE kept
    IN  IF Len(sum) > MantissaBits
        THEN [bits |-> SubSeq(sum, 1, MantissaBits), exp |-> exp + drop + 1]
        ELSE [bits |-> sum, exp |-> exp + drop]

\* a / b for integers a, b >= 1: the correctly rounded quotient.
DivDouble(a, b, MantissaBits) ==
    LET s == ShiftUp(a, b)
        t == IF s > 0 THEN 0 ELSE ShiftUp(b, a + 1) - 1
        a1 == a * Pow2(s)
        b1 == b * Pow2(t)
        div == LongDiv(a1 - b1, b1, MantissaBits - 1)
        more == IF div[2] = 0 THEN 0
                ELSE IF 2 * div[2] < b1 THEN 1
                ELSE IF 2 * div[2] = b1 THEN 2 ELSE 3
    IN  RoundToDouble(<<1>> \o div[1], (t - s) - (MantissaBits - 1), more,
                      MantissaBits)

\* The digits of bits * n + carry.
RECURSIVE MulBits(_, _, _)
MulBits(bits, n, carry) ==
    IF Len(bits) = 0
    THEN (IF carry = 0 THEN <<>> ELSE ToBits(carry, ShiftUp(1, carry + 1)))
    ELSE LET c == IF Len(bits) < ChunkBits THEN Len(bits) ELSE ChunkBits
             cut == Len(bits) - c
             v == n * BitsToInt(SubSeq(bits, cut + 1, Len(bits))) + carry
         IN  MulBits(SubSeq(bits, 1, cut), n, v \div Pow2(c))
                 \o ToBits(v % Pow2(c), c)

\* n * f for an integer n >= 1: the correctly rounded product.
MulDouble(n, f, MantissaBits) ==
    RoundToDouble(MulBits(f.bits, n, 0), f.exp, 0, MantissaBits)

\* int(f): the integer part of a double below 2^31.
IntOfDouble(f) ==
    LET n == Len(f.bits) + f.exp
    IN  IF n <= 0 THEN 0
        ELSE IF n >= Len(f.bits) THEN BitsToInt(f.bits) * Pow2(f.exp)
        ELSE BitsToInt(SubSeq(f.bits, 1, n))

\* The significand of a Python float has 53 binary digits.
DoubleBits == 53

\* ratio = width / img.width; new_height = int(img.height * ratio)
NewHeight(h, width, w) ==
    IntOfDouble(MulDouble(h, DivDouble(width, w, DoubleBits), DoubleBits))

\* The resize step of load_and_normalize on an image of size w x h: the new
\* size, or Null when Image.resize raises (it rejects a height below 1).
ResizeToWidth(w, h, width) ==
    IF w = width THEN <<w, h>>
    ELSE LET newHeight == NewHeight(h, width, w)
         IN  IF newHeight < 1 THEN Null ELSE <<width, newHeight>>

\* load_and_normalize: the whole call on a readable image of size w x h.
LoadAndNormalize ==
    /\ pc = "start"
    /\ pc' = "done"
    /\ \E wh \in Sizes, width \in Widths, autoCrop \in BOOLEAN :
        LET w == wh[1]
            h == wh[2]
        IN
        \E rect \in IF autoCrop
                    THEN {Null} \cup
                         {<<sx[1], sy[1], sx[2] - sx[1], sy[2] - sy[1]>> :
                             sx \in Spans(w), sy \in Spans(h)}
                    ELSE {Null} :
            LET size == IF autoCrop THEN AutoCropContent(w, h, rect)
                        ELSE <<w, h>>
            IN  /\ normIn' = [w |-> w, h |-> h, width |-> width,
                              autoCrop |-> autoCrop, rect |-> rect,
                              cropped |-> size]
                /\ normOut' =
                      LET out == ResizeToWidth(size[1], size[2], width)
                      IN  IF out = Null
                          THEN [raised |-> TRUE, size |-> Null]
                          ELSE [raised |-> FALSE, size |-> out]
    /\ UNCHANGED <<ssimVars, palVars, cliVars, sugVars, cropVars, xferVars, svcVars>>

NormalizeNext == LoadAndNormalize

SpecNormalize == Init /\ [][NormalizeNext]_vars

(***************************************************************************)
(* Claims about load_and_normalize                                         *)
(***************************************************************************)

\* round(a / b), halves to the even neighbour.
RoundDiv(a, b) ==
    LET q == (2 * a) \div (2 * b)
        r == (2 * a) % (2 * b)
    IN  IF r > b \/ (r = b /\ q % 2 = 1) THEN q + 1 ELSE q

\* C10: for every cropped size W x H and target width T the call returns an
\* image of width exactly T and height exactly round(H * T / W).
C10_ResizedHeightIsRounded ==
    pc = "done" =>
        /\ ~normOut.raised
        /\ normOut.size[1] = normIn.width
        /\ normOut.size[2] =
               RoundDiv(normIn.cropped[2] * normIn.width, normIn.cropped[1])

\* The scenario of C10: 2000x1000, width 1200, no crop, gives 1200x600.
C10_ScenarioHolds ==
    (pc = "done" /\ normIn.w = 2000 /\ normIn.h = 1000 /\ normIn.width = 1200
        /\ ~normIn.autoCrop) =>
        (~normOut.raised /\ normOut.size = <<1200, 600>>)


(***************************************************************************)
(* detect_content_bounds and auto_crop_content on their own                *)
(***************************************************************************)

\* Bounds of the model.
MaxCropDim == 6       \* widths and heights of the small images
MaxMargin == 2        \* margins passed to detect_content_bounds

\* Every rectangle <<x, y, bw, bh>> inside a w x h image whose sides start and
\* end at the given places.
RectsAt(xs, ys) ==
    {<<sx[1], sy[1], sx[2] - sx[1], sy[2] - sy[1]>> :
        sx \in {p \in xs \X xs : p[1] < p[2]},
        sy \in {p \in ys \X ys : p[1] < p[2]}}

\* The sizes auto_crop_content is tried on: large enough for a margin of 2%.
AutoCropSizes == {<<100, 100>>, <<200, 100>>}

\* Where the content may start and end along an extent n when the margin is
\* m: the quarter points, and the places where the expanded content is just
\* below, at, and above half of the extent.
AutoCuts(n, m) ==
    (Cuts(n) \cup {n \div 2 - 2 * m - 1, n \div 2 - 2 * m, n \div 2 - m,
                   n \div 2 + m}) \cap (0..n)

\* detect_content_bounds(img, margin=margin): the whole call.
DetectBounds ==
    /\ pc = "start"
    /\ pc' = "done"
    /\ \E w \in 1..MaxCropDim, h \in 1..MaxCropDim, margin \in 0..MaxMargin :
        \E rect \in {Null} \cup RectsAt(0..w, 0..h) :
            /\ cropIn' = [via |-> "detect", w |-> w, h |-> h, rect |-> rect,
                          margin |-> margin]
            /\ cropOut' = DetectContentBounds(w, h, rect, margin)
    /\ UNCHANGED <<ssimVars, palVars, cliVars, normVars, sugVars, xferVars, svcVars>>

\* auto_crop_content(img): the box it crops to.
AutoCrop ==
    /\ pc = "start"
    /\ pc' = "done"
    /\ \E wh \in AutoCropSizes :
        LET w == wh[1]
            h == wh[2]
            margin == CropMargin(w, h)
        IN  \E rect \in {Null} \cup RectsAt(AutoCuts(w, margin), AutoCuts(h, margin)) :
                /\ cropIn' = [via |-> "auto", w |-> w, h |-> h, rect |-> rect,
                              margin |-> margin]
                /\ cropOut' = DetectContentBounds(w, h, rect, margin)
    /\ UNCHANGED <<ssimVars, palVars, cliVars, normVars, sugVars, xferVars, svcVars>>

CropNext == DetectBounds \/ AutoCrop

SpecCrop == Init /\ [][CropNext]_vars

(***************************************************************************)
(* Claims about detect_content_bounds and auto_crop_content                *)
(***************************************************************************)

\* A dimension of the box as the claims describe it: the content's extent
\* <<start, length>> expanded by the margin on both sides and clipped.
Expanded(n, x, bn, margin) ==
    LET from == IF x - margin < 0 THEN 0 ELSE x - margin
        to == IF x + bn + margin > n THEN n ELSE x + bn + margin
    IN  <<from, to - from>>

\* A dimension of the box before the 50% check: the start moved back by the
\* margin and kept at 0 or more, the length grown by twice the margin and cut
\* to what is left of the image after the start.
Widened(n, x, bn, margin) ==
    LET from == IF x < margin THEN 0 ELSE x - margin
        len == IF bn + 2 * margin > n - from THEN n - from ELSE bn + 2 * margin
    IN  <<from, len>>

\* C15: the box is inside the image and at least half of it in each
\* dimension; a dimension whose expanded extent is below half of the image is
\* reset to the full extent, independently of the other; and with no content
\* the box is the full image.
C15_CropBoxInsideAndAtLeastHalf ==
    pc = "done" =>
        LET w == cropIn.w
            h == cropIn.h
            r == cropIn.rect
            m == cropIn.margin
            x == cropOut[1]
            y == cropOut[2]
            bw == cropOut[3]
            bh == cropOut[4]
        IN  /\ 0 <= x /\ 0 <= y /\ x + bw <= w /\ y + bh <= h
            /\ 2 * bw >= w /\ 2 * bh >= h
            /\ r = Null => cropOut = <<0, 0, w, h>>
            /\ r # Null =>
                /\ 2 * Widened(w, r[1], r[3], m)[2] < w
                       => (x = 0 /\ bw = w)
                /\ 2 * Widened(h, r[2], r[4], m)[2] < h
                       => (y = 0 /\ bh = h)
                /\ 2 * Widened(w, r[1], r[3], m)[2] >= w
                       => <<x, bw>> = Widened(w, r[1], r[3], m)
                /\ 2 * Widened(h, r[2], r[4], m)[2] >= h
                       => <<y, bh>> = Widened(h, r[2], r[4], m)

\* One dimension is reset and the other is cropped.
C15_Witness ==
    /\ pc = "done"
    /\ cropIn.rect # Null
    /\ cropIn.margin > 0
    /\ cropOut[1] = 0 /\ cropOut[3] = cropIn.w
    /\ cropOut[2] > 0 /\ cropOut[4] < cropIn.h
    /\ cropIn.rect[1] > 0

\* The content lies in one quarter of the image: in one half of the width and
\* in one half of the height.
InQuarter ==
    /\ cropIn.rect # Null
    /\ \/ 2 * (cropIn.rect[1] + cropIn.rect[3]) <= cropIn.w
       \/ 2 * cropIn.rect[1] >= cropIn.w
    /\ \/ 2 * (cropIn.rect[2] + cropIn.rect[4]) <= cropIn.h
       \/ 2 * cropIn.rect[2] >= cropIn.h

\* The box contains the content expanded by the margin on every side, clipped
\* to the image.
ContainsExpandedContent ==
    cropIn.rect # Null =>
        LET ex == Expanded(cropIn.w, cropIn.rect[1], cropIn.rect[3], cropIn.margin)
            ey == Expanded(cropIn.h, cropIn.rect[2], cropIn.rect[4], cropIn.margin)
        IN  /\ cropOut[1] <= ex[1]
            /\ cropOut[2] <= ey[1]
            /\ ex[1] + ex[2] <= cropOut[1] + cropOut[3]
            /\ ey[1] + ey[2] <= cropOut[2] + cropOut[4]

\* C16 as stated: auto-crop on content confined to an off-centre quarter
\* returns a box strictly smaller than the image in a dimension or more, and
\* the box always contains the content expanded by the margin.
C16_AutoCropOriginal ==
    pc = "done" =>
        /\ (cropIn.via = "auto" /\ InQuarter) =>
               (cropOut[3] < cropIn.w \/ cropOut[4] < cropIn.h)
        /\ ContainsExpandedContent

\* C16 amended: on content confined to an off-centre quarter the box is
\* strictly smaller than the image in a dimension exactly when the extent
\* before the 50% check (the content's extent plus twice the margin, cut to
\* what is left of the image after the start) is at least half of the image's
\* and less than all of it; and the box always contains the expanded content.
C16_AutoCropAmended ==
    pc = "done" =>
        /\ (cropIn.via = "auto" /\ InQuarter) =>
               LET ex == Widened(cropIn.w, cropIn.rect[1], cropIn.rect[3],
                                  cropIn.margin)
                   ey == Widened(cropIn.h, cropIn.rect[2], cropIn.rect[4],
                                  cropIn.margin)
               IN  /\ (cropOut[3] < cropIn.w)
                          = (2 * ex[2] >= cropIn.w /\ ex[2] < cropIn.w)
                   /\ (cropOut[4] < cropIn.h)
                          = (2 * ey[2] >= cropIn.h /\ ey[2] < cropIn.h)
        /\ ContainsExpandedContent

\* Content in the lower right quarter, away from the edges: cropped in the
\* width, where it reaches half with its margin, and not in the height.
C16_Witness ==
    /\ pc = "done"
    /\ cropIn.via = "auto"
    /\ InQuarter
    /\ 2 * cropIn.rect[1] >= cropIn.w
    /\ 2 * cropIn.rect[2] >= cropIn.h
    /\ cropOut[3] < cropIn.w
    /\ cropOut[4] = cropIn.h
    /\ cropOut[1] > 0

(***************************************************************************)
(* suggest_color_adjustments                                               *)
(*                                                                         *)
(* A multiplier is kept in hundredths (1.0 is 100).  cv2's 8-bit LAB       *)
(* conversion is the library's: it gives every colour an L in 0..255, the  *)
(* same L to the same colour.                                              *)
(***************************************************************************)

\* Bounds of the model.
MaxEntries == 2       \* entries of a palette
DeltaSpread == 1      \* L differences within this of each threshold

\* Program constants.
Deadband == 10        \* if abs(l_diff) > 10
ClampLo == 50         \* max(0.5, ...)
ClampHi == 150        \* min(1.5, ...)
LabMax == 255         \* dtype=np.uint8

Unit == 100
LMid == (LabMax + 1) \div 2

\* The colours of the palette entries: one without spread and two with.
SuggestColors == { <<255, 255, 255>>, <<255, 0, 0>>, <<200, 120, 40>> }

ColorSeqs == UNION {[1..n -> SuggestColors] : n \in 0..MaxEntries}

\* A palette as extract_palette returns it after clustering, one entry per
\* colour in the order given; with no colour, a palette with no entry.
DetailsPalette(cs) ==
    IF cs = <<>>
    THEN [success |-> TRUE, colors |-> <<>>, palette_details |-> <<>>]
    ELSE KMeansPalette(cs, [i \in DOMAIN cs |-> i - 1])

\* palette.get("palette_details", [])
DetailsOf(palette) ==
    IF "palette_details" \in DOMAIN palette THEN palette.palette_details
    ELSE <<>>

\* The L differences tried: around the deadband and around the clamp.
Deltas ==
    {t + e : t \in {0 - (ClampHi - Unit), 0 - Deadband, 0, Deadband,
                    ClampHi - Unit},
             e \in (0 - DeltaSpread)..DeltaSpread}

\* <<L of the reference's top entry, L of the generated palette's top entry>>
LPairs(refTop, genTop) ==
    IF refTop = genTop THEN {<<LMid, LMid>>}
    ELSE {<<LMid + d, LMid>> : d \in Deltas} \cup {<<LabMax, 0>>, <<0, LabMax>>}

Abs(x) == IF x < 0 THEN 0 - x ELSE x

\* max(0.5, min(1.5, x))
ClampNone(h) == h

Clamp(h) == Max2(ClampLo, Min2(ClampHi, h))

\* The brightness branch: round(1.0 + (l_diff / 100), 2), clamped, beyond the
\* deadband.  l_diff is a whole number, so the sum has two decimals.
Brightness(lDiff) ==
    IF Abs(lDiff) > Deadband THEN Clamp(Unit + lDiff) ELSE Unit

\* "darker" if l_diff < -10 else "lighter" if l_diff > 10 else "neutral"
ToneBySign(lDiff) ==
    IF lDiff < 0 THEN "darker" ELSE IF lDiff > 0 THEN "lighter" ELSE "neutral"

Tone(lDiff) ==
    IF lDiff < 0 - Deadband THEN "darker"
    ELSE IF lDiff > Deadband THEN "lighter"
    ELSE "neutral"

\* The sum over all channels of all entries of v and of v * v.
RECURSIVE SumRgb(_, _, _)
SumRgb(details, j, squared) ==
    IF j > Len(details) THEN 0
    ELSE LET rgb == details[j].rgb
         IN  (IF squared
              THEN rgb[1] * rgb[1] + rgb[2] * rgb[2] + rgb[3] * rgb[3]
              ELSE rgb[1] + rgb[2] + rgb[3])
                 + SumRgb(details, j + 1, squared)

\* np.std of the n = 3 * len(details) channel values, as n * n times its
\* square: n * sum(v^2) - sum(v)^2.
VarNum(details) ==
    LET n == 3 * Len(details)
        sum == SumRgb(details, 1, FALSE)
    IN  n * SumRgb(details, 1, TRUE) - sum * sum

\* floor(num * 10^digits / den) and what is left, by long division.
RECURSIVE ScaledQuotient(_, _, _)
ScaledQuotient(num, den, digits) ==
    IF digits = 0 THEN <<num \div den, num % den>>
    ELSE LET prev == ScaledQuotient(num, den, digits - 1)
         IN  <<10 * prev[1] + (10 * prev[2]) \div den, (10 * prev[2]) % den>>

\* round(sqrt(p / q), 2) in hundredths, for a ratio between the two clamps; a
\* ratio at or beyond a clamp gives that clamp.  h is the rounding when
\* (2h-1)^2 <= 40000 p/q < (2h+1)^2; a ratio that is exactly halfway between
\* two hundredths is no double, and goes either way.
RoundRatio(p, q) ==
    LET lo == Unit \div ClampLo     \* the clamps are 1/lo and hi/lo
        hi == ClampHi \div ClampLo
    IN
    IF lo * lo * p <= q THEN {ClampLo}
    ELSE IF lo * lo * p >= hi * hi * q THEN {ClampHi}
    ELSE LET y == ScaledQuotient(4 * p, q, 4)
         IN  {h \in ClampLo..ClampHi :
                 \/ (2 * h - 1) * (2 * h - 1) <= y[1]
                        /\ y[1] < (2 * h + 1) * (2 * h + 1)
                 \/ (2 * h + 1) * (2 * h + 1) = y[1] /\ y[2] = 0}

\* The saturation branch: the values round(ref_saturation / gen_saturation, 2)
\* may take, clamped; 1.0 when gen_saturation is 0.
Saturate(refDetails, genDetails) ==
    IF VarNum(genDetails) > 0
    THEN {Clamp(h) : h \in
             RoundRatio(VarNum(refDetails) * Len(genDetails) * Len(genDetails),
                        VarNum(genDetails) * Len(refDetails) * Len(refDetails))}
    ELSE {Unit}

\* str() of a Python float of h hundredths, below 10 in size: the shortest
\* decimal that reads back as the float.
FloatStr(h) ==
    LET a == Abs(h)
    IN  (IF h < 0 THEN <<"-">> ELSE <<>>)
            \o <<HexDigit[(a \div Unit) + 1], ".",
                 HexDigit[((a % Unit) \div 10) + 1]>>
            \o (IF a % 10 = 0 THEN <<>> ELSE <<HexDigit[(a % 10) + 1]>>)

\* The same string with the last two values in each other's place.
CssFilterSwapped(brightness, contrast, saturate) ==
    <<"filter: brightness(">> \o FloatStr(brightness)
        \o <<") contrast(">> \o FloatStr(saturate)
        \o <<") saturate(">> \o FloatStr(contrast) \o <<");">>

\* f"filter: brightness({brightness}) contrast({contrast}) saturate({saturate});"
CssFilter(brightness, contrast, saturate) ==
    <<"filter: brightness(">> \o FloatStr(brightness)
        \o <<") contrast(">> \o FloatStr(contrast)
        \o <<") saturate(">> \o FloatStr(saturate) \o <<");">>

\* suggest_color_adjustments: the dictionary returned, given the L values cv2
\* returned for the two top entries and the rounding of the ratio.
SuggestColorAdjustments(refPalette, genPalette, ls, saturate) ==
    IF DetailsOf(refPalette) = <<>> \/ DetailsOf(genPalette) = <<>>
    THEN [success |-> FALSE, error |-> "No palette data available"]
    ELSE LET lDiff == ls[1] - ls[2]
             brightness == Brightness(lDiff)
             contrast == Unit
         IN  [success |-> TRUE,
              suggested_filters |-> [brightness |-> brightness,
                                     contrast |-> contrast,
                                     saturate |-> saturate],
              css_filter |-> CssFilter(brightness, contrast, saturate),
              tone_suggestion |-> Tone(lDiff)]

\* A palette of the fewer-than-k fallback (one mean colour) or of clustering.
MakePalette(kind, cs) ==
    IF kind = "fallback" THEN FallbackPalette(cs, 0) ELSE DetailsPalette(cs)

\* suggest_color_adjustments: the whole call.
SuggestAdjustments ==
    /\ pc = "start"
    /\ pc' = "done"
    /\ \E refKind \in {"details", "fallback"}, genKind \in {"details", "fallback"},
          refCs \in ColorSeqs, genCs \in ColorSeqs :
        /\ refKind = "fallback" => Len(refCs) = 1
        /\ genKind = "fallback" => Len(genCs) = 1
        /\ LET ref == MakePalette(refKind, refCs)
               gen == MakePalette(genKind, genCs)
               refDetails == DetailsOf(ref)
               genDetails == DetailsOf(gen)
           IN  IF refDetails = <<>> \/ genDetails = <<>>
               THEN /\ sugIn' = [ref |-> ref, gen |-> gen, ls |-> Null]
                    /\ sugOut' = SuggestColorAdjustments(ref, gen, Null, Unit)
               ELSE \E ls \in LPairs(refDetails[1].rgb, genDetails[1].rgb),
                       saturate \in Saturate(refDetails, genDetails) :
                        /\ sugIn' = [ref |-> ref, gen |-> gen, ls |-> ls]
                        /\ sugOut' = SuggestColorAdjustments(ref, gen, ls, saturate)
    /\ UNCHANGED <<ssimVars, palVars, cliVars, normVars, cropVars, xferVars, svcVars>>

SuggestNext == SuggestAdjustments

SpecSuggest == Init /\ [][SuggestNext]_vars

(***************************************************************************)
(* Claims about suggest_color_adjustments                                  *)
(***************************************************************************)

\* dL: L of the reference's top entry minus L of the generated one's.
DeltaL == sugIn.ls[1] - sugIn.ls[2]

SuggestionMade == pc = "done" /\ sugOut.success

\* C11: with |dL| <= 10 the brightness is exactly 1.0; beyond, it is
\* 1 + dL/100 clamped into [0.5, 1.5]; it is in [0.5, 1.5] for every dL.
C11_BrightnessDeadbandAndClamp ==
    SuggestionMade =>
        LET b == sugOut.suggested_filters.brightness
        IN  /\ DeltaL \in (0 - Deadband)..Deadband => b = Unit
            /\ DeltaL \notin (0 - Deadband)..Deadband =>
                   b = (IF Unit + DeltaL < ClampLo THEN ClampLo
                        ELSE IF Unit + DeltaL > ClampHi THEN ClampHi
                        ELSE Unit + DeltaL)
            /\ ClampLo <= b /\ b <= ClampHi

\* The largest dL there is: the brightness is held at 1.5.
C11_Witness ==
    /\ SuggestionMade
    /\ DeltaL = LabMax
    /\ sugOut.suggested_filters.brightness = ClampHi

\* C12: the tone label and the brightness agree: beyond the deadband upwards
\* the brightness is > 1.0 and the tone "lighter", beyond it downwards < 1.0
\* and "darker", otherwise 1.0 and "neutral"; so the tone is lighter, darker,
\* neutral exactly when the brightness is > 1, < 1, = 1.
C12_ToneAgreesWithBrightness ==
    SuggestionMade =>
        LET b == sugOut.suggested_filters.brightness
            tone == sugOut.tone_suggestion
        IN  /\ DeltaL > Deadband => (b > Unit /\ tone = "lighter")
            /\ DeltaL < 0 - Deadband => (b < Unit /\ tone = "darker")
            /\ DeltaL \in (0 - Deadband)..Deadband =>
                   (b = Unit /\ tone = "neutral")
            /\ (tone = "lighter") = (b > Unit)
            /\ (tone = "darker") = (b < Unit)
            /\ (tone = "neutral") = (b = Unit)

\* The reference is lighter by one more than the deadband.
C12_Witness ==
    /\ SuggestionMade
    /\ DeltaL = Deadband + 1
    /\ sugOut.tone_suggestion = "lighter"
    /\ sugOut.suggested_filters.brightness = Unit + Deadband + 1

\* The value a decimal string spells, in hundredths.
DigitValue(ch) == CHOOSE v \in 0..9 : HexDigit[v + 1] = ch

ParseFloat(chars) ==
    IF Len(chars) = 3 /\ chars[2] = "."
    THEN Unit * DigitValue(chars[1]) + 10 * DigitValue(chars[3])
    ELSE IF Len(chars) = 4 /\ chars[2] = "."
    THEN Unit * DigitValue(chars[1]) + 10 * DigitValue(chars[3])
             + DigitValue(chars[4])
    ELSE 0 - 1

Index(seq, token) == CHOOSE i \in DOMAIN seq : seq[i] = token

\* The three values a css_filter string carries.
CssValues(css) ==
    LET c == Index(css, ") contrast(")
        t == Index(css, ") saturate(")
        e == Index(css, ");")
    IN  <<ParseFloat(SubSeq(css, 2, c - 1)),
          ParseFloat(SubSeq(css, c + 1, t - 1)),
          ParseFloat(SubSeq(css, t + 1, e - 1))>>

\* sat is the ratio sqrt(p / q) to the nearest hundredth, clamped.
IsClampedRatio(sat, p, q) ==
    IF p >= 4 * q THEN sat = ClampHi
    ELSE LET y == ScaledQuotient(4 * p, q, 4)
         IN  /\ sat > ClampLo => (2 * sat - 1) * (2 * sat - 1) <= y[1]
             /\ sat < ClampHi =>
                    \/ y[1] < (2 * sat + 1) * (2 * sat + 1)
                    \/ y[1] = (2 * sat + 1) * (2 * sat + 1) /\ y[2] = 0

\* sat is the ratio sqrt(p / q) itself, clamped.
IsExactClampedRatio(sat, p, q) ==
    IF 4 * p <= q THEN sat = ClampLo
    ELSE IF 4 * p >= 9 * q THEN sat = ClampHi
    ELSE ScaledQuotient(p, q, 4) = <<sat * sat, 0>>

\* C13 as stated: all three multipliers are in [0.5, 1.5]; contrast is
\* exactly 1.0; saturate is the ratio of the standard deviations of the
\* reference's and the generated palette's RGB values clamped into
\* [0.5, 1.5], and exactly 1.0 when the generated one's is zero; css_filter
\* carries the same values.
C13_MultipliersOriginal ==
    SuggestionMade =>
        LET f == sugOut.suggested_filters
            ref == DetailsOf(sugIn.ref)
            gen == DetailsOf(sugIn.gen)
        IN  /\ \A m \in {f.brightness, f.contrast, f.saturate} :
                   ClampLo <= m /\ m <= ClampHi
            /\ f.contrast = Unit
            /\ VarNum(gen) = 0 => f.saturate = Unit
            /\ VarNum(gen) > 0 =>
                   IsExactClampedRatio(f.saturate,
                                       VarNum(ref) * Len(gen) * Len(gen),
                                       VarNum(gen) * Len(ref) * Len(ref))
            /\ sugOut.css_filter[1] = "filter: brightness("
            /\ CssValues(sugOut.css_filter)
                   = <<f.brightness, f.contrast, f.saturate>>

\* C13 amended: the same, with saturate the ratio rounded to 2 decimals and
\* then clamped into [0.5, 1.5].
C13_MultipliersClamped ==
    SuggestionMade =>
        LET f == sugOut.suggested_filters
            ref == DetailsOf(sugIn.ref)
            gen == DetailsOf(sugIn.gen)
        IN  /\ \A m \in {f.brightness, f.contrast, f.saturate} :
                   ClampLo <= m /\ m <= ClampHi
            /\ f.contrast = Unit
            /\ VarNum(gen) = 0 => f.saturate = Unit
            /\ VarNum(gen) > 0 =>
                   IsClampedRatio(f.saturate,
                                  VarNum(ref) * Len(gen) * Len(gen),
                                  VarNum(gen) * Len(ref) * Len(ref))
            /\ sugOut.css_filter[1] = "filter: brightness("
            /\ CssValues(sugOut.css_filter)
                   = <<f.brightness, f.contrast, f.saturate>>

\* A ratio strictly between the clamps, with a second decimal, and a
\* brightness that differs from it.
C13_Witness ==
    /\ SuggestionMade
    /\ sugOut.suggested_filters.saturate > ClampLo
    /\ sugOut.suggested_filters.saturate < Unit
    /\ sugOut.suggested_filters.saturate % 10 # 0
    /\ sugOut.suggested_filters.brightness = ClampHi

\* C14: the call returns the no-data failure exactly when the reference or the
\* generated palette has no entry, and a suggestion whenever both have one or
\* more, the one-entry palettes of the fewer-than-k fallback included.
C14_FailsOnlyOnEmptyPalette ==
    pc = "done" =>
        /\ sugOut.success =
               (Len(sugIn.ref.colors) > 0 /\ Len(sugIn.gen.colors) > 0)
        /\ ~sugOut.success => sugOut.error = "No palette data available"

(***************************************************************************)
(* reinhard_color_transfer                                                 *)
(*                                                                         *)
(* The images are taken after rgb_to_lab: a pixel is a triple <<L, a, b>>  *)
(* of 8-bit levels.  A mean, a variance and a shift are fractions          *)
(* <<numerator, denominator>> with a positive denominator, not reduced; a  *)
(* standard deviation is kept as its square.  A result value is kept as    *)
(* the four numbers the code combines,                                     *)
(*     dev * (sqrt(tstd2) / sqrt(sstd2)) + mean,                           *)
(* so that no root is taken.  The conversion of the result to RGB and the  *)
(* save come after result_lab and the statistics and change neither.       *)
(***************************************************************************)

\* Bound of the model.
MaxLabPixels == 2     \* pixels of an image

\* Constant of the code.
EpsilonInverse == 1000000     \* source_std < 1e-6

\* 8-bit LAB pixels, close to each other so that the products of their
\* deviations stay small.
LabColors == {<<100, 128, 128>>, <<104, 128, 124>>, <<100, 132, 128>>,
              <<96, 126, 130>>}

LabImages == UNION {[1..n -> LabColors] : n \in 1..MaxLabPixels}

RECURSIVE ChanSum(_, _, _)
\* The sum of channel i over the first k pixels.
ChanSum(img, i, k) ==
    IF k = 0 THEN 0 ELSE img[k][i] + ChanSum(img, i, k - 1)

\* np.mean(lab, axis=(0, 1))[i]
ChanMean(img, i) == <<ChanSum(img, i, Len(img)), Len(img)>>

RECURSIVE SqDevSum(_, _, _)
\* The sum over the first k pixels of (n * (x - mean)) squared.
SqDevSum(img, i, k) ==
    IF k = 0 THEN 0
    ELSE LET d == Len(img) * img[k][i] - ChanSum(img, i, Len(img))
         IN  d * d + SqDevSum(img, i, k - 1)

\* np.std(lab, axis=(0, 1))[i] squared: the mean of the squared deviations.
ChanVar(img, i) ==
    <<SqDevSum(img, i, Len(img)), Len(img) * Len(img) * Len(img)>>

\* std < 1e-6 for the standard deviation whose square is var.
BelowEpsilon(var) ==
    \/ var[1] = 0
    \/ /\ var[1] <= var[2] \div EpsilonInverse
       /\ var[1] * EpsilonInverse <= (var[2] - 1) \div EpsilonInverse

\* The source deviation left as it was computed.
FloorStdNone(var) == var

\* np.where(source_std < 1e-6, 1.0, source_std), squared.
FloorStd(var) == IF BelowEpsilon(var) THEN <<1, 1>> ELSE var

\* The value of a channel that is not transferred: result_lab is a copy.
Copied(x) ==
    [transferred |-> FALSE, source |-> x, dev |-> <<0, 1>>,
     tstd2 |-> <<1, 1>>, sstd2 |-> <<1, 1>>, mean |-> <<x, 1>>]

\* The transfer without the source mean taken off.
TransferNoMean(x, sMean, sStd2, tMean, tStd2) ==
    [transferred |-> TRUE, source |-> x, dev |-> <<x, 1>>,
     tstd2 |-> tStd2, sstd2 |-> sStd2, mean |-> tMean]

\* (source_lab[:, :, i] - source_mean[i]) * (target_std[i] / source_std[i])
\*     + target_mean[i]     for one pixel.
Transfer(x, sMean, sStd2, tMean, tStd2) ==
    [transferred |-> TRUE, source |-> x,
     dev |-> <<x * sMean[2] - sMean[1], sMean[2]>>,
     tstd2 |-> tStd2, sstd2 |-> sStd2, mean |-> tMean]

\* The difference taken the other way round.
ShiftReversed(sMean, tMean) ==
    <<sMean[1] * tMean[2] - tMean[1] * sMean[2], tMean[2] * sMean[2]>>

\* target_mean[i] - source_mean[i]
Shift(sMean, tMean) == <<tMean[1] * sMean[2] - sMean[1] * tMean[2], tMean[2] * sMean[2]>>

\* reinhard_color_transfer from the LAB images on: result_lab and the
\* dictionary returned.  zero_divisor tells whether a channel was divided by
\* a source_std of 0.
ReinhardTransfer(source, target, preserve) ==
    LET sMean == [i \in 1..3 |-> ChanMean(source, i)]
        tMean == [i \in 1..3 |-> ChanMean(target, i)]
        sStd2 == [i \in 1..3 |-> FloorStd(ChanVar(source, i))]
        tStd2 == [i \in 1..3 |-> ChanVar(target, i)]
        channels == IF preserve THEN {2, 3} ELSE {1, 2, 3}
    IN  [success |-> TRUE,
         result_lab |->
             [k \in 1..Len(source) |->
                 [i \in 1..3 |->
                     IF i \in channels
                     THEN Transfer(source[k][i], sMean[i], sStd2[i],
                                   tMean[i], tStd2[i])
                     ELSE Copied(source[k][i])]],
         zero_divisor |-> \E i \in channels : sStd2[i][1] = 0,
         source_mean_lab |-> sMean,
         target_mean_lab |-> tMean,
         color_shift |->
             [L_shift |-> Shift(sMean[1], tMean[1]),
              a_shift |-> Shift(sMean[2], tMean[2]),
              b_shift |-> Shift(sMean[3], tMean[3]),
              brightness_change |->
                  IF tMean[1][1] * sMean[1][2] < sMean[1][1] * tMean[1][2]
                  THEN "darker" ELSE "lighter",
              warmth_change |->
                  IF tMean[3][1] * sMean[3][2] > sMean[3][1] * tMean[3][2]
                  THEN "warmer" ELSE "cooler"]]

ReinhardColorTransfer ==
    /\ pc = "start"
    /\ pc' = "done"
    /\ \E source \in LabImages, target \in LabImages, preserve \in BOOLEAN :
        /\ xferIn' = [source |-> source, target |-> target,
                      preserve_luminance |-> preserve]
        /\ xferOut' = ReinhardTransfer(source, target, preserve)
    /\ UNCHANGED <<ssimVars, palVars, cliVars, normVars, sugVars, cropVars, svcVars>>

TransferNext == ReinhardColorTransfer

SpecTransfer == Init /\ [][TransferNext]_vars

(***************************************************************************)
(* Claims about reinhard_color_transfer                                    *)
(***************************************************************************)

SignOf(n) == IF n > 0 THEN 1 ELSE IF n < 0 THEN 0 - 1 ELSE 0

\* The result value v is a number and equals the fraction f.
ValueIs(v, f) ==
    /\ v.sstd2[1] # 0
    /\ LET right == <<f[1] * v.mean[2] - v.mean[1] * f[2], f[2] * v.mean[2]>>
           left == IF v.tstd2[1] = 0 THEN 0 ELSE SignOf(v.dev[1])
       IN  /\ left = SignOf(right[1])
           /\ v.dev[1] * v.dev[1] * v.tstd2[1] * v.sstd2[2] * right[2] * right[2]
                  = right[1] * right[1] * v.dev[2] * v.dev[2] * v.tstd2[2] * v.sstd2[1]

\* Every pixel of the source has the same level in channel i.
ZeroVariance(source, i) ==
    \A k \in DOMAIN source : source[k][i] = source[1][i]

\* C17: with the same image as source and target, and either value of
\* preserve_luminance, every channel of every result pixel equals the source
\* pixel's channel, and L_shift, a_shift and b_shift are 0.
C17_SameImageIsIdentity ==
    (pc = "done" /\ xferIn.source = xferIn.target) =>
        /\ \A k \in DOMAIN xferIn.source : \A i \in 1..3 :
               ValueIs(xferOut.result_lab[k][i], <<xferIn.source[k][i], 1>>)
        /\ xferOut.color_shift.L_shift[1] = 0
        /\ xferOut.color_shift.a_shift[1] = 0
        /\ xferOut.color_shift.b_shift[1] = 0

\* The same image on both sides, all channels transferred, one of them of
\* zero variance and another one not.
C17_Witness ==
    /\ pc = "done"
    /\ xferIn.source = xferIn.target
    /\ ~xferIn.preserve_luminance
    /\ Len(xferIn.source) > 1
    /\ \E i \in 1..3 : ZeroVariance(xferIn.source, i)
    /\ \E i \in 1..3 : ~ZeroVariance(xferIn.source, i)

\* The channels the call transfers.
Transferred == IF xferIn.preserve_luminance THEN {2, 3} ELSE {1, 2, 3}

\* C20: the divisor of every transferred channel is at or above the floor
\* and nothing is divided by zero; a source channel of zero variance has the
\* divisor 1.0, and every result pixel has the target's mean in it.
C20_DivisorNeverBelowFloor ==
    pc = "done" =>
        /\ ~xferOut.zero_divisor
        /\ \A i \in Transferred : \A k \in DOMAIN xferIn.source :
               /\ ~BelowEpsilon(xferOut.result_lab[k][i].sstd2)
               /\ ZeroVariance(xferIn.source, i) =>
                      /\ xferOut.result_lab[k][i].sstd2[1]
                             = xferOut.result_lab[k][i].sstd2[2]
                      /\ ValueIs(xferOut.result_lab[k][i],
                                 xferOut.target_mean_lab[i])

\* A source channel of zero variance is transferred from a target whose
\* channel varies, in an image of more than one pixel.
C20_Witness ==
    /\ pc = "done"
    /\ Len(xferIn.source) > 1
    /\ \E i \in Transferred :
           /\ ZeroVariance(xferIn.source, i)
           /\ ~ZeroVariance(xferIn.target, i)
           /\ xferOut.target_mean_lab[i][1]
                  # xferIn.source[1][i] * xferOut.target_mean_lab[i][2]

\* The fraction f is the mean of channel i of the target minus the mean of
\* channel i of the source.
IsMeanDifference(f, i) ==
    LET sm == <<ChanSum(xferIn.source, i, Len(xferIn.source)), Len(xferIn.source)>>
        tm == <<ChanSum(xferIn.target, i, Len(xferIn.target)), Len(xferIn.target)>>
    IN  /\ f[2] > 0
        /\ f[1] * sm[2] * tm[2] = (tm[1] * sm[2] - sm[1] * tm[2]) * f[2]

\* C21: each shift is the target's mean minus the source's in its channel;
\* brightness_change is "darker" exactly when L_shift < 0 and "lighter" when
\* L_shift > 0, warmth_change is "warmer" exactly when b_shift > 0 and
\* "cooler" when b_shift < 0; a shift of 0 is labelled "lighter" and
\* "cooler", and there is no other label.
C21_ShiftLabelsFollowSign ==
    pc = "done" =>
        LET cs == xferOut.color_shift
        IN  /\ IsMeanDifference(cs.L_shift, 1)
            /\ IsMeanDifference(cs.a_shift, 2)
            /\ IsMeanDifference(cs.b_shift, 3)
            /\ cs.brightness_change \in {"darker", "lighter"}
            /\ cs.warmth_change \in {"warmer", "cooler"}
            /\ (cs.brightness_change = "darker") = (cs.L_shift[1] < 0)
            /\ cs.L_shift[1] > 0 => cs.brightness_change = "lighter"
            /\ cs.L_shift[1] = 0 => cs.brightness_change = "lighter"
            /\ (cs.warmth_change = "warmer") = (cs.b_shift[1] > 0)
            /\ cs.b_shift[1] < 0 => cs.warmth_change = "cooler"
            /\ cs.b_shift[1] = 0 => cs.warmth_change = "cooler"

\* Different images with the same mean L, and a lower mean b in the target.
C21_Witness ==
    /\ pc = "done"
    /\ xferIn.source # xferIn.target
    /\ Len(xferIn.source) # Len(xferIn.target)
    /\ xferOut.color_shift.L_shift[1] = 0
    /\ xferOut.color_shift.brightness_change = "lighter"
    /\ xferOut.color_shift.b_shift[1] < 0
    /\ xferOut.color_shift.warmth_change = "cooler"

(***************************************************************************)
(* The two command lines: main() of color_transfer.py and main() of        *)
(* image_preprocess.py.                                                    *)
(*                                                                         *)
(* A run is decided by its arguments, by the environment (which libraries  *)
(* import, whether the input file exists) and by `fault`: the step at      *)
(* which an exception is raised if the run gets there (an unreadable or    *)
(* malformed file, an I/O error, memory, a standard output that cannot     *)
(* take the text), or "none".  A save that raises is taken to leave no     *)
(* file behind.                                                            *)
(*                                                                         *)
(* A run ends with [exit, result, format, written]: the process exit       *)
(* status; the result reported, "success" or "failure", or "none" when     *)
(* only help or usage was printed; whether it was reported as a JSON       *)
(* object or as text; and whether the output image file was created or     *)
(* overwritten.                                                            *)
(***************************************************************************)

\* The steps of each function, in the order of the code.
TransferSteps == <<"load", "stats", "transfer", "save", "summary">>
PaletteSteps == <<"load", "cluster">>
SsimSteps == <<"load", "score", "contours">>
SuggestSteps == <<"load", "cluster", "compare">>
NormalizeSteps(stats) ==
    <<"load", "save", "hash">> \o (IF stats THEN <<"stats">> ELSE <<>>)

Faults == {"none", "load", "stats", "transfer", "save", "summary", "cluster",
           "score", "contours", "compare", "hash", "print"}

\* What argparse makes of the arguments of color_transfer.py: a usage error
\* (an unknown sub-command, a missing required option), no sub-command, or one
\* of the four sub-commands.
Parses == {"usage", "missing", "transfer", "palette", "ssim", "suggest"}

Raises(steps, fault) == \E i \in DOMAIN steps : steps[i] = fault

\* The steps that ran to their end.
Completed(steps, fault) ==
    IF Raises(steps, fault)
    THEN SubSeq(steps, 1, (CHOOSE i \in DOMAIN steps : steps[i] = fault) - 1)
    ELSE steps

Saved(steps, fault) ==
    \E i \in DOMAIN Completed(steps, fault) : steps[i] = "save"

\* A call of one of the tool functions: whether it raised, the "success" field
\* of what it returned, and whether it wrote the output image.
Call(steps, fault, success) ==
    [raised |-> Raises(steps, fault),
     success |-> success,
     written |-> Saved(steps, fault)]

\* compute_ssim returns a failure object before it does anything when
\* scikit-image is missing.
CallSsim(hasSkimage, fault) ==
    IF hasSkimage THEN Call(SsimSteps, fault, TRUE)
    ELSE Call(<<>>, fault, FALSE)

\* suggest: the two palettes, then suggest_color_adjustments, which returns a
\* failure object when a palette has no "palette_details".
CallSuggest(refDetails, genDetails, fault) ==
    Call(SuggestSteps, fault, refDetails /\ genDetails)

\* The try block of main() and what follows it: print the result and fall off
\* the end (exit status 0), or catch the exception, print a failure object and
\* sys.exit(1).  A print that raises inside the try block is caught as well.
Finish(call, fault) ==
    IF call.raised \/ fault = "print"
    THEN [exit |-> 1, result |-> "failure", format |-> "json",
          written |-> call.written]
    ELSE [exit |-> 0,
          result |-> IF call.success THEN "success" ELSE "failure",
          format |-> "json", written |-> call.written]

\* check_dependencies() when an import failed.
MissingDependency ==
    [exit |-> 1, result |-> "failure", format |-> "json", written |-> FALSE]

\* argparse's own exit on a usage error.
UsageError ==
    [exit |-> 2, result |-> "none", format |-> "text", written |-> FALSE]

\* main() of color_transfer.py.
ColorTransferMain(in) ==
    IF ~in.hasDeps THEN MissingDependency
    ELSE IF in.parse = "usage" THEN UsageError
    ELSE IF in.parse = "missing"
    THEN [exit |-> 1, result |-> "none", format |-> "text", written |-> FALSE]
    ELSE Finish(CASE in.parse = "transfer" ->
                         Call(TransferSteps, in.fault, TRUE)
                  [] in.parse = "palette" ->
                         Call(PaletteSteps, in.fault, TRUE)
                  [] in.parse = "ssim" ->
                         CallSsim(in.hasSkimage, in.fault)
                  [] in.parse = "suggest" ->
                         CallSuggest(in.refDetails, in.genDetails, in.fault),
                in.fault)

\* main() of image_preprocess.py.
PreprocessMain(in) ==
    LET format == IF in.json THEN "json" ELSE "text"
    IN  IF ~in.hasDeps THEN MissingDependency
        ELSE IF in.parse = "usage" THEN UsageError
        ELSE IF ~in.inputExists
        THEN [exit |-> 1, result |-> "failure", format |-> format,
              written |-> FALSE]
        ELSE LET call == Call(NormalizeSteps(in.stats), in.fault, TRUE)
             IN  IF call.raised \/ in.fault = "print"
                 THEN [exit |-> 1, result |-> "failure", format |-> format,
                       written |-> call.written]
                 ELSE [exit |-> 0, result |-> "success", format |-> format,
                       written |-> call.written]

RunColorTransfer ==
    /\ pc = "start"
    /\ pc' = "done"
    /\ \E hasDeps \in BOOLEAN, hasSkimage \in BOOLEAN, parse \in Parses,
          refDetails \in BOOLEAN, genDetails \in BOOLEAN, fault \in Faults :
        LET in == [tool |-> "color_transfer", hasDeps |-> hasDeps,
                   hasSkimage |-> hasSkimage, parse |-> parse,
                   refDetails |-> refDetails, genDetails |-> genDetails,
                   fault |-> fault]
        IN  /\ cliIn' = in
            /\ cliOut' = ColorTransferMain(in)
    /\ UNCHANGED <<ssimVars, palVars, normVars, sugVars, cropVars, xferVars, svcVars>>

RunPreprocess ==
    /\ pc = "start"
    /\ pc' = "done"
    /\ \E hasDeps \in BOOLEAN, parse \in {"usage", "normalize"},
          inputExists \in BOOLEAN, json \in BOOLEAN, stats \in BOOLEAN,
          fault \in Faults :
        LET in == [tool |-> "image_preprocess", hasDeps |-> hasDeps,
                   parse |-> parse, inputExists |-> inputExists,
                   json |-> json, stats |-> stats, fault |-> fault]
        IN  /\ cliIn' = in
            /\ cliOut' = PreprocessMain(in)
    /\ UNCHANGED <<ssimVars, palVars, normVars, sugVars, cropVars, xferVars, svcVars>>

CliNext == RunColorTransfer \/ RunPreprocess

SpecCli == Init /\ [][CliNext]_vars

(***************************************************************************)
(* Claims about the command lines                                          *)
(***************************************************************************)

\* The run ended in failure: a failure result (a result object with
\* success=false, a caught exception), a missing capability, or an unknown or
\* missing sub-command.
EndedInFailure ==
    \/ cliOut.result = "failure"
    \/ ~cliIn.hasDeps
    \/ cliIn.parse \in {"usage", "missing"}

\* C2: on both command lines every run that ends in failure exits with a
\* non-zero status, and exit status 0 occurs only with a success result.
C2_FailureExitsNonZero ==
    pc = "done" =>
        /\ EndedInFailure => cliOut.exit # 0
        /\ cliOut.exit = 0 => cliOut.result = "success"

\* C3: a run of the transfer command or of the normalization command that
\* ends in failure has not created or overwritten the output image file.
C3_NoOutputFileOnFailure ==
    (pc = "done" /\ cliIn.parse \in {"transfer", "normalize"}
        /\ cliOut.exit # 0) =>
        ~cliOut.written



(***************************************************************************)
(* The session service: app/auth.py and app/main.py of vision2code         *)
(*                                                                         *)
(* Every route handler runs from its first line to its last without        *)
(* giving way to another one (its database calls are synchronous), so a    *)
(* handler is one action.  The clock is in ticks, TicksPerSecond to the    *)
(* second: datetime.utcnow() reads the tick, and the timestamp of a        *)
(* signature is the second the tick lies in.  A user is known by the       *)
(* google id of its row.  secrets.token_urlsafe(32) gives an id that was   *)
(* never given before: ids are numbered in the order of their creation.    *)
(* A signed value is [sid, ts, genuine]: the session id and the second of  *)
(* signing it carries, and whether the signature is the serializer's own;  *)
(* a value not made by sign_session_id is not genuine.                     *)
(***************************************************************************)

\* Bounds of the model.
MaxSessions == 2        \* sessions created in a behaviour
MaxTime == 6            \* the last tick of the clock
TicksPerSecond == 2     \* resolution of the clock
ExpireSeconds == 1      \* settings.session_expire_hours, in seconds

GoogleIds == {"g1", "g2"}

\* COOKIE_MAX_AGE = settings.session_expire_hours * 3600
CookieMaxAge == ExpireSeconds

\* timedelta(hours=settings.session_expire_hours), in ticks
ExpireTicks == ExpireSeconds * TicksPerSecond

\* int(time.time())
Sec(t) == t \div TicksPerSecond

\* The signature taken for good whoever made it.
VerifySessionIdUnsigned(token, t) ==
    IF Sec(t) - token.ts <= CookieMaxAge THEN token.sid ELSE 0

\* verify_session_id: the session id of a signed value whose signature is
\* genuine and not older than COOKIE_MAX_AGE; 0 for None.
VerifySessionId(token, t) ==
    IF token.genuine /\ Sec(t) - token.ts >= 0 /\ Sec(t) - token.ts <= CookieMaxAge
    THEN token.sid
    ELSE 0

\* sign_session_id at tick t.
SignSessionId(sid, t) ==
    [present |-> TRUE, sid |-> sid, ts |-> Sec(t), genuine |-> TRUE]

\* db.query(Session).filter(Session.id == sid).first()
QueryFirst(rows, sid) ==
    IF \E r \in rows : r.id = sid
    THEN CHOOSE r \in rows : r.id = sid
    ELSE NoRow

\* create_session: the new row.
CreateSession(sid, user, t) ==
    [present |-> TRUE, id |-> sid, user_id |-> user, expires_at |-> t + ExpireTicks]

\* delete_session: the table afterwards.
DeleteSession(rows, sid) == rows \ {QueryFirst(rows, sid)}

\* get_session_from_cookie: the session returned (NoRow for None) and the
\* table afterwards.
GetSessionFromCookie(token, rows, t) ==
    IF ~token.present THEN [session |-> NoRow, rows |-> rows]
    ELSE IF VerifySessionId(token, t) = 0 THEN [session |-> NoRow, rows |-> rows]
    ELSE LET session == QueryFirst(rows, VerifySessionId(token, t))
         IN  IF ~session.present THEN [session |-> NoRow, rows |-> rows]
             ELSE IF session.expires_at < t
                  THEN [session |-> NoRow, rows |-> rows \ {session}]
                  ELSE [session |-> session, rows |-> rows]

\* get_user_from_session: session.user, or None.  get_current_user and
\* get_optional_user return the same user; no route depends on them.
GetUserFromSession(token, rows, t) ==
    [user |-> GetSessionFromCookie(token, rows, t).session.user_id,
     rows |-> GetSessionFromCookie(token, rows, t).rows]

\* The signed values a request can carry: none, one that was handed out, or
\* one of those with the signature tampered with.
Tokens ==
    {NoToken} \cup {issued[i] : i \in DOMAIN issued}
              \cup {[issued[i] EXCEPT !.genuine = FALSE] : i \in DOMAIN issued}

\* What is kept of a request: the route, the signed value it carried, the row
\* of that id in the table when the request came in, the user it was resolved
\* to and the status of the response.
Answer(route, token, user, status) ==
    [route |-> route, token |-> token, row |-> QueryFirst(sessions, token.sid),
     user |-> user, status |-> status]

\* GET /auth/callback
AuthCallback ==
    \E g \in GoogleIds, outcome \in {"ok", "invalid_user_info", "auth_failed"} :
        /\ lastReq' = Answer("callback", NoToken, None, 302)
        /\ IF outcome = "ok"
           THEN /\ Len(issued) < MaxSessions
                /\ users' = users \cup {g}
                /\ sessions' = sessions \cup {CreateSession(Len(issued) + 1, g, now)}
                /\ issued' = Append(issued, SignSessionId(Len(issued) + 1, now))
           ELSE UNCHANGED <<users, sessions, issued>>
        /\ UNCHANGED <<now, loggedOut>>
        /\ UNCHANGED <<pc, ssimVars, palVars, cliVars, normVars, sugVars,
                       cropVars, xferVars>>

\* GET /logout
Logout ==
    \E token \in Tokens :
        /\ lastReq' = Answer("logout", token, None, 302)
        /\ IF token.present /\ VerifySessionId(token, now) # 0
           THEN /\ sessions' = DeleteSession(sessions, VerifySessionId(token, now))
                /\ loggedOut' = loggedOut \cup
                       {r.id : r \in sessions \ DeleteSession(sessions, VerifySessionId(token, now))}
           ELSE UNCHANGED <<sessions, loggedOut>>
        /\ UNCHANGED <<now, users, issued>>
        /\ UNCHANGED <<pc, ssimVars, palVars, cliVars, normVars, sugVars,
                       cropVars, xferVars>>

\* GET /
IndexPage ==
    \E token \in Tokens :
        LET found == GetUserFromSession(token, sessions, now)
        IN  /\ lastReq' = Answer("index", token, found.user,
                                 IF found.user # None THEN 302 ELSE 200)
            /\ sessions' = found.rows
            /\ UNCHANGED <<now, users, issued, loggedOut>>
            /\ UNCHANGED <<pc, ssimVars, palVars, cliVars, normVars, sugVars,
                           cropVars, xferVars>>

\* GET /dashboard
Dashboard ==
    \E token \in Tokens :
        LET found == GetUserFromSession(token, sessions, now)
        IN  /\ lastReq' = Answer("dashboard", token, found.user,
                                 IF found.user # None THEN 200 ELSE 302)
            /\ sessions' = found.rows
            /\ UNCHANGED <<now, users, issued, loggedOut>>
            /\ UNCHANGED <<pc, ssimVars, palVars, cliVars, normVars, sugVars,
                           cropVars, xferVars>>

\* GET /me, with the signed value taken from the Authorization header, the
\* Cookie header or the cookies.
GetMe ==
    \E token \in Tokens :
        LET session_id == VerifySessionId(token, now)
            session == QueryFirst(sessions, session_id)
        IN  /\ lastReq' =
                   IF ~token.present THEN Answer("me", token, None, 401)
                   ELSE IF session_id = 0 THEN Answer("me", token, None, 401)
                   ELSE IF ~session.present \/ session.expires_at < now
                        THEN Answer("me", token, None, 401)
                        ELSE Answer("me", token, session.user_id, 200)
            /\ UNCHANGED <<now, users, sessions, issued, loggedOut>>
            /\ UNCHANGED <<pc, ssimVars, palVars, cliVars, normVars, sugVars,
                           cropVars, xferVars>>

\* Time passes.
Tick ==
    /\ now < MaxTime
    /\ now' = now + 1
    /\ lastReq' = Idle
    /\ UNCHANGED <<users, sessions, issued, loggedOut>>
    /\ UNCHANGED <<pc, ssimVars, palVars, cliVars, normVars, sugVars,
                   cropVars, xferVars>>

SessionNext ==
    \/ AuthCallback
    \/ Logout
    \/ IndexPage
    \/ Dashboard
    \/ GetMe
    \/ Tick

SpecSession == Init /\ [][SessionNext]_vars

(***************************************************************************)
(* Claims about the session service                                        *)
(***************************************************************************)

\* The routes that resolve a request through get_session_from_cookie.
CookieRoutes == {"index", "dashboard"}

\* The signed value of the last request verifies: it was made by
\* sign_session_id and is not older than the cookie's maximal age.
SignatureVerifies ==
    /\ lastReq.token.present
    /\ \E i \in DOMAIN issued : issued[i] = lastReq.token
    /\ now \div TicksPerSecond - lastReq.token.ts <= ExpireSeconds

\* The last request met a row of its session id whose expires_at is past.
MetExpiredSession ==
    /\ SignatureVerifies
    /\ lastReq.row.present
    /\ lastReq.row.expires_at < now

\* C22: a request is resolved to a user only if its signed session id
\* verifies and a row of that id exists with expires_at not in the past; a
\* session deleted by logout never authenticates again; an expired session
\* met by get_session_from_cookie is deleted, while /me answers it with 401
\* and leaves the row in place.
C22_SessionsAuthenticateOnlyWhileValid ==
    /\ lastReq.user # None =>
           /\ lastReq.route \in CookieRoutes \cup {"me"}
           /\ SignatureVerifies
           /\ lastReq.row.present
           /\ lastReq.row.id = lastReq.token.sid
           /\ lastReq.row.expires_at >= now
           /\ lastReq.row.user_id = lastReq.user
           /\ lastReq.token.sid \notin loggedOut
    /\ \A id \in loggedOut : \A r \in sessions : r.id # id
    /\ (lastReq.route \in CookieRoutes /\ MetExpiredSession) =>
           /\ lastReq.user = None
           /\ \A r \in sessions : r.id # lastReq.token.sid
    /\ (lastReq.route = "me" /\ MetExpiredSession) =>
           /\ lastReq.user = None
           /\ lastReq.status = 401
           /\ lastReq.row \in sessions

\* get_session_from_cookie has met an expired session whose signature still
\* verifies, after another session was logged out.
C22_Witness ==
    /\ lastReq.route = "dashboard"
    /\ MetExpiredSession
    /\ loggedOut # {}
    /\ lastReq.token.sid \notin loggedOut

=============================================================================
